---- MODULE Spec2Model ----
(***************************************************************************)
(* A model of src/app.py: the Database facade (local SQLite store, optional *)
(* MySQL mirror), the CheckinScheduler loop, the check-in routine and the   *)
(* administrative handlers that write through the facade.                   *)
(*                                                                          *)
(* Time: one clock unit is one scheduler period (time.sleep(30), line 1081).*)
(* A date is a day number, a time of day a clock value 0..DayLen-1.         *)
(***************************************************************************)
EXTENDS Integers, Sequences, FiniteSets, TLC

\* ------------------------------------------------------------------ bounds
MaxDay == 2
DayLen == 3
MaxId == 2
MaxThreads == 2
MaxExec == 3
MaxRepl == 2
MaxRequests == 2
MaxReconnectors == 2
MaxSid == 3
\* MAX_RETRY_ATTEMPTS is read from the environment (line 42); the model runs it small.
max_retries == 3

\* The inputs the administrative surface and the remote store supply.
\* MYSQL_DSN set or not (lines 87-101)
DB_TYPES == {"sqlite", "mysql"}
Names == {"a", "b"}
RetryCounts == {0, 1}
CheckIntervals == {2}
Windows == {<<1, 2>>}
Days == 1..MaxDay
Ids == 1..MaxId
Slots == 1..MaxThreads
NULL == 0

VARIABLES
    DB_TYPE,          \* 'mysql' when MYSQL_DSN parses, else 'sqlite'
    today,            \* datetime.now(TIMEZONE).date()
    clock,            \* datetime.now(TIMEZONE), the time of day
    awake,            \* the scheduler loop is about to run its body (not in time.sleep)
    accounts,         \* the local accounts table: a set of rows
    next_id,          \* sqlite_sequence of accounts (AUTOINCREMENT never reuses an id)
    checkin_history,  \* the local checkin_history table: a set of rows
    next_hid,         \* sqlite_sequence of checkin_history
    checkin_tasks,    \* CheckinScheduler.checkin_tasks: task_key -> task record
    threads,          \* the check-in threads: slot -> thread record
    notification_settings, \* the local notification_settings table: a set of rows
    next_sid,         \* sqlite_sequence of notification_settings
    using_mysql,      \* Database.using_mysql
    retry_count,      \* Database.retry_count, the connector's attempt counter
    reconnectors,     \* _reconnect_mysql threads at their loop test (line 272)
    attempts,         \* threads inside connect_mysql, before its outcome (lines 210-243)
    openers,          \* threads past line 247, before sync_from_mysql's transaction
    sync_tx,          \* the open SQLite transaction of sync_from_mysql, with the rows it read
    one_loop,         \* one _reconnect_mysql thread followed by name: where it is in its loop
    remote,           \* the remote store: [accounts, notify]
    repl,             \* replication threads started by execute() and not yet run
    requests,         \* administrative requests served so far
    last_read,        \* what the last administrative read returned to its caller
    dispatches,       \* history variable: scheduler dispatches per <<name, day>>
    exec_calls,       \* history variable: executor invocations per <<name, day>>
    notified,         \* history variable: notifications handed to a channel
    seen,             \* history variable: what the ticks of today found, <<tag, name>>
    stamped,          \* history variable: names whose last_checkin_date has been today, today
    last_done,        \* history variable: the call of perform_checkin that returned last
    ever_connected,   \* history variable: some connect attempt has succeeded
    repl_log,         \* history variable: how the last replication call ended
    delays            \* history variable: the delays of the attempts since the last success or loss

vars == <<DB_TYPE, today, clock, awake, accounts, next_id, checkin_history, next_hid,
          checkin_tasks, threads, notification_settings, next_sid, using_mysql,
          retry_count, reconnectors, attempts, openers, sync_tx, one_loop, remote, repl,
          requests, last_read, dispatches, exec_calls, notified, seen, stamped, last_done,
          ever_connected, repl_log, delays>>

timeVars == <<today, clock, awake>>
localVars == <<accounts, next_id, checkin_history, next_hid, notification_settings, next_sid>>
connVars == <<DB_TYPE, using_mysql, retry_count, reconnectors, attempts, openers, sync_tx,
              one_loop>>
schedVars == <<checkin_tasks, threads>>
ghostVars == <<dispatches, exec_calls, notified, seen, stamped, last_done,
               ever_connected, repl_log, delays>>

\* ------------------------------------------------------------ the facade

\* A cursor read while its connection is still open: the selected rows.
CursorFetch_Open(rows) == [raised |-> FALSE, rows |-> rows]

\* What the caller of fetchone()/fetchall() gets. execute() returns the cursor
\* from inside its try block, so the finally clause (lines 520-521) closes the
\* connection before the caller reads the cursor (lines 560 and 566): sqlite3
\* raises ProgrammingError ("Cannot operate on a closed database") whatever
\* rows the statement selected.
CursorFetch(rows) == [raised |-> TRUE, rows |-> {}]

fetchone(rows) == CursorFetch(rows)

fetchall(rows) == CursorFetch(rows)

\* SELECT * FROM accounts WHERE id = ?
AccountById(id) == {a \in accounts : a.id = id}

\* SELECT id FROM checkin_history WHERE account_id = ? AND checkin_date = ?
HistoryOf(id, date) ==
    {h \in checkin_history : h.account_id = id /\ h.checkin_date = date}

\* The account's name, for the history variables (a thread knows only the id).
NameOf(id) == IF AccountById(id) = {} THEN "?" ELSE (CHOOSE a \in AccountById(id) : TRUE).name


\* One account row as add_account inserts it (lines 1308-1311; enabled DEFAULT 1,
\* last_checkin_date DEFAULT NULL, lines 144-149).
NewAccount(id, name, window, interval, retries) ==
    [id |-> id, name |-> name, enabled |-> TRUE, window |-> window,
     check_interval |-> interval, retry_count |-> retries, last_checkin_date |-> NULL]

\* The names whose last_checkin_date is day.
Stamped(rows, day) == {a.name : a \in {r \in rows : r.last_checkin_date = day}}

\* An execute() that starts a replication thread whatever using_mysql says.
Replicated_Always(ops) == repl \cup ops

\* execute(): the statement is applied to the local store under self.lock and,
\* when using_mysql holds, one replication thread per write is started
\* (lines 511-513, 555). ops is the set of replication calls of the handler.
Replicated(ops) == IF using_mysql THEN repl \cup ops ELSE repl

execute(ops) ==
    /\ Cardinality(Replicated(ops)) <= MaxRepl
    /\ repl' = Replicated(ops)

\* ------------------------------------------------ administrative handlers

\* The SQLite engine admits one writing transaction: while the transaction of
\* sync_from_mysql is open, the statement of another connection waits for the
\* busy timeout and then raises OperationalError ("database is locked").
EngineBusy == sync_tx.open

\* One more request of the administrative surface is served.
Request ==
    /\ requests < MaxRequests
    /\ requests' = requests + 1

\* POST /api/accounts. name is UNIQUE (line 142): a second insert of a name
\* raises IntegrityError and the handler answers 400 with nothing written.
add_account(name, window, interval, retries) ==
    /\ Request
    /\ next_id <= MaxId
    /\ IF EngineBusy \/ \E a \in accounts : a.name = name
       THEN UNCHANGED <<accounts, next_id, repl>>
       ELSE /\ accounts' = accounts \cup {NewAccount(next_id, name, window, interval, retries)}
            /\ next_id' = next_id + 1
            /\ execute({[kind |-> "accounts_insert", id |-> NULL, field |-> name, val |-> NULL]})
    /\ UNCHANGED <<timeVars, checkin_history, next_hid, notification_settings, next_sid,
                   connVars, remote, schedVars, last_read, ghostVars>>

\* The local UPDATE accounts SET field = val WHERE id = ?
UpdateRows(rows, id, field, val) ==
    {IF a.id = id THEN [a EXCEPT ![field] = val] ELSE a : a \in rows}

\* PUT /api/accounts/<id>: no existence check, an UPDATE of a missing id changes nothing.
update_account(id, field, val) ==
    /\ Request
    /\ IF EngineBusy
       THEN UNCHANGED <<accounts, repl>>
       ELSE /\ accounts' = UpdateRows(accounts, id, field, val)
            /\ execute({[kind |-> "accounts_update", id |-> id, field |-> field, val |-> val]})
    /\ UNCHANGED <<timeVars, next_id, checkin_history, next_hid, notification_settings,
                   next_sid, connVars, remote, schedVars, last_read, ghostVars>>

\* DELETE /api/accounts/<id>: the history rows first, then the account.
delete_account(id) ==
    /\ Request
    /\ IF EngineBusy
       THEN UNCHANGED <<checkin_history, accounts, repl>>
       ELSE /\ checkin_history' = {h \in checkin_history : h.account_id # id}
            /\ accounts' = {a \in accounts : a.id # id}
            /\ execute({[kind |-> "history_delete", id |-> id, field |-> "", val |-> NULL],
                        [kind |-> "accounts_delete", id |-> id, field |-> "", val |-> NULL]})
    /\ UNCHANGED <<timeVars, next_id, next_hid, notification_settings, next_sid,
                   connVars, remote, schedVars, last_read, ghostVars>>

\* POST /api/checkin/clear, type 'today' or 'all'.
clear_checkin_history(type) ==
    /\ Request
    /\ type \in {"today", "all"}
    /\ IF EngineBusy
       THEN UNCHANGED <<checkin_history, accounts, repl>>
       ELSE /\ checkin_history' = IF type = "today"
                                  THEN {h \in checkin_history : h.checkin_date # today}
                                  ELSE {}
            /\ accounts' = {IF type = "all" \/ a.last_checkin_date = today
                            THEN [a EXCEPT !.last_checkin_date = NULL] ELSE a : a \in accounts}
            /\ execute({[kind |-> "history_clear", id |-> NULL, field |-> type, val |-> today],
                        [kind |-> "accounts_clear", id |-> NULL, field |-> type, val |-> today]})
    /\ UNCHANGED <<timeVars, next_id, next_hid, notification_settings, next_sid,
                   connVars, remote, schedVars, last_read, ghostVars>>

\* GET /api/accounts: the rows a caller reads back through fetchall.
get_accounts ==
    /\ Request
    /\ last_read' = fetchall(accounts)
    /\ UNCHANGED <<timeVars, localVars, connVars, remote, repl, schedVars, ghostVars>>

\* PUT /api/notification: the row with id = 1 is looked up through fetchone
\* (line 1493), then updated, or a new row is inserted when none is found.
\* A failing read ends the handler in its except clause (line 1526).
update_notification_settings(enabled) ==
    /\ Request
    /\ LET existing == fetchone({r \in notification_settings : r.id = 1})
       IN  IF existing.raised \/ EngineBusy
           THEN UNCHANGED <<notification_settings, next_sid, repl>>
           ELSE IF existing.rows # {}
           THEN /\ notification_settings' =
                      {IF r.id = 1 THEN [r EXCEPT !.enabled = enabled] ELSE r :
                          r \in notification_settings}
                /\ execute({[kind |-> "settings_update", id |-> 1, field |-> "enabled",
                             val |-> IF enabled THEN 1 ELSE 0]})
                /\ UNCHANGED next_sid
           ELSE /\ next_sid <= MaxSid
                /\ notification_settings' =
                      notification_settings \cup {[id |-> next_sid, enabled |-> enabled]}
                /\ next_sid' = next_sid + 1
                /\ execute({[kind |-> "settings_update", id |-> 1, field |-> "enabled",
                             val |-> IF enabled THEN 1 ELSE 0]})
    /\ UNCHANGED <<timeVars, accounts, next_id, checkin_history, next_hid, connVars, remote,
                   schedVars, last_read, ghostVars>>


\* ------------------------------------------------- remote store connector

connGhost == <<ever_connected, repl_log, delays>>

\* No transaction of sync_from_mysql is open.
NoTx == [open |-> FALSE, accounts |-> {}]

\* The _reconnect_mysql threads alive, wherever they are in their loop.
LiveLoops ==
    reconnectors + attempts + openers + (IF sync_tx.open THEN 1 ELSE 0)
        + (IF one_loop \in {"test", "attempt"} THEN 1 ELSE 0)

\* base_retry_delay (line 115)
base_retry_delay == 3

Min(a, b) == IF a <= b THEN a ELSE b

\* The sleep of lines 215-218 for the attempt made with retry_count = k.
Delay(k) == IF k > 0 THEN Min(base_retry_delay * (2 ^ (k - 1)), 300) ELSE 0

RECURSIVE Renumber(_, _)
\* The INSERT loop of sync_from_mysql (lines 380-399): every remote row is
\* re-inserted without its id, so SQLite numbers the rows anew from first on.
Renumber(rows, first) ==
    IF rows = {} THEN {}
    ELSE LET r == CHOOSE x \in rows : \A y \in rows : x.id <= y.id
         IN {[r EXCEPT !.id = first]} \cup Renumber(rows \ {r}, first + 1)

\* A resynchronisation that also empties the local history.
SyncedFrom_ClearingHistory(rows) ==
    /\ next_id + Cardinality(rows) <= MaxId + 1
    /\ next_sid <= MaxSid
    /\ accounts' = Renumber(rows, next_id)
    /\ next_id' = next_id + Cardinality(rows)
    /\ notification_settings' = {[id |-> next_sid, enabled |-> remote.notify]}
    /\ next_sid' = next_sid + 1
    /\ checkin_history' = {}
    /\ UNCHANGED next_hid

\* What the commit of sync_from_mysql (line 433) leaves: local accounts and the
\* settings row are replaced by the rows read from the remote store, in one
\* SQLite transaction; checkin_history is not touched.
SyncedFrom(rows) ==
    /\ next_id + Cardinality(rows) <= MaxId + 1
    /\ next_sid <= MaxSid
    /\ accounts' = Renumber(rows, next_id)
    /\ next_id' = next_id + Cardinality(rows)
    /\ notification_settings' = {[id |-> next_sid, enabled |-> remote.notify]}
    /\ next_sid' = next_sid + 1
    /\ UNCHANGED <<checkin_history, next_hid>>

\* The failure path of connect_mysql (lines 257-268), taken by a thread that
\* then returns to the loop test of _reconnect_mysql: below the cap one more
\* _reconnect_mysql thread is started (line 263).
ConnectFailed ==
    /\ retry_count' = retry_count + 1
    /\ IF retry_count + 1 < max_retries
       THEN /\ LiveLoops + 1 <= MaxReconnectors
            /\ reconnectors' = reconnectors + 2
            /\ UNCHANGED using_mysql
       ELSE /\ reconnectors' = reconnectors + 1
            /\ using_mysql' = FALSE

\* _reconnect_mysql: the loop test fails and the thread ends (line 272).
reconnect_exit ==
    /\ reconnectors > 0
    /\ ~(retry_count < max_retries /\ ~using_mysql)
    /\ reconnectors' = reconnectors - 1
    /\ UNCHANGED <<DB_TYPE, one_loop, using_mysql, retry_count, attempts, openers, sync_tx, timeVars,
                   localVars, remote, repl, schedVars, requests, last_read, ghostVars>>

\* _reconnect_mysql: the loop test passes and the thread enters connect_mysql,
\* where it sleeps the delay computed from retry_count (lines 215-218).
reconnect_attempt ==
    /\ reconnectors > 0
    /\ retry_count < max_retries /\ ~using_mysql
    /\ reconnectors' = reconnectors - 1
    /\ attempts' = attempts + 1
    /\ delays' = Append(delays, Delay(retry_count))
    /\ UNCHANGED <<DB_TYPE, one_loop, using_mysql, retry_count, openers, sync_tx, timeVars, localVars,
                   remote, repl, schedVars, requests, last_read, dispatches, exec_calls,
                   notified, seen, stamped, last_done, ever_connected, repl_log>>

\* connect_mysql: the pool or the test query raises (lines 223-243).
reconnect_failed ==
    /\ attempts > 0
    /\ attempts' = attempts - 1
    /\ ConnectFailed
    /\ UNCHANGED <<DB_TYPE, one_loop, openers, sync_tx, timeVars, localVars, remote, repl, schedVars,
                   requests, last_read, ghostVars>>

\* connect_mysql: the test query answers (lines 245-247).
reconnect_connected ==
    /\ attempts > 0
    /\ attempts' = attempts - 1
    /\ openers' = openers + 1
    /\ using_mysql' = TRUE
    /\ retry_count' = 0
    /\ ever_connected' = TRUE
    /\ delays' = <<>>
    /\ UNCHANGED <<DB_TYPE, one_loop, reconnectors, sync_tx, timeVars, localVars, remote, repl, schedVars,
                   requests, last_read, dispatches, exec_calls, notified, seen, stamped,
                   last_done, repl_log>>

\* init_mysql_tables raises (line 355) after using_mysql was set: the except
\* clause of connect_mysql counts a failure and the thread returns to its loop.
init_mysql_tables_failed ==
    /\ openers > 0
    /\ openers' = openers - 1
    /\ ConnectFailed
    /\ UNCHANGED <<DB_TYPE, one_loop, attempts, sync_tx, timeVars, localVars, remote, repl, schedVars,
                   requests, last_read, ghostVars>>

\* A resynchronisation whose DELETE is committed at once, outside a transaction.
sync_from_mysql_begin_Autocommit ==
    /\ openers > 0
    /\ using_mysql
    /\ ~sync_tx.open
    /\ openers' = openers - 1
    /\ sync_tx' = [open |-> TRUE, accounts |-> remote.accounts]
    /\ accounts' = {}
    /\ UNCHANGED <<DB_TYPE, one_loop, using_mysql, retry_count, reconnectors, attempts, timeVars,
                   next_id, checkin_history, next_hid, notification_settings, next_sid,
                   remote, repl, schedVars, requests, last_read, ghostVars>>

\* sync_from_mysql reads the remote accounts (lines 371-372) and opens its
\* SQLite transaction with the DELETE of line 378. It takes no self.lock; the
\* engine admits one writing transaction at a time.
sync_from_mysql_begin ==
    /\ openers > 0
    /\ using_mysql
    /\ ~sync_tx.open
    /\ openers' = openers - 1
    /\ sync_tx' = [open |-> TRUE, accounts |-> remote.accounts]
    /\ UNCHANGED <<DB_TYPE, one_loop, using_mysql, retry_count, reconnectors, attempts, timeVars,
                   localVars, remote, repl, schedVars, requests, last_read, ghostVars>>

\* sync_from_mysql commits (line 433); connect_mysql returns True and the loop breaks.
sync_from_mysql ==
    /\ sync_tx.open
    /\ SyncedFrom(sync_tx.accounts)
    /\ sync_tx' = NoTx
    /\ stamped' = stamped \cup Stamped(accounts', today)
    /\ UNCHANGED <<DB_TYPE, one_loop, using_mysql, retry_count, reconnectors, attempts, openers, timeVars,
                   remote, repl, schedVars, requests, last_read, dispatches, exec_calls,
                   notified, seen, last_done, connGhost>>

\* sync_from_mysql ends without replacing anything: it returns at line 360
\* because using_mysql was reset meanwhile, or an error (remote or local) is
\* caught and logged at line 437 and the open transaction is rolled back.
sync_from_mysql_failed ==
    /\ \/ /\ openers > 0
          /\ openers' = openers - 1
          /\ UNCHANGED sync_tx
       \/ /\ sync_tx.open
          /\ sync_tx' = NoTx
          /\ UNCHANGED openers
    /\ UNCHANGED <<DB_TYPE, one_loop, using_mysql, retry_count, reconnectors, attempts, timeVars,
                   localVars, remote, repl, schedVars, requests, last_read, ghostVars>>

\* What one replication call does to the remote accounts (lines 448-470). The
\* statement keeps the local id as its WHERE parameter.
RemoteApply(op) ==
    CASE op.kind = "accounts_update" -> UpdateRows(remote.accounts, op.id, op.field, op.val)
      [] op.kind = "accounts_delete" -> {a \in remote.accounts : a.id # op.id}
      [] op.kind = "accounts_clear" ->
            {IF op.field = "all" \/ a.last_checkin_date = op.val
             THEN [a EXCEPT !.last_checkin_date = NULL] ELSE a : a \in remote.accounts}
      \* accounts_insert: seven placeholders (lines 451-453) for the six
      \* parameters of add_account's statement, the call raises and is logged
      [] OTHER -> remote.accounts

\* The remote store after the statement of one replication call; the settings
\* statement is UPDATE ... WHERE id = 1 (lines 474-483).
RemoteAfter(op) ==
    IF op.kind = "settings_update"
    THEN [remote EXCEPT !.notify = (op.val = 1)]
    ELSE [remote EXCEPT !.accounts = RemoteApply(op)]

\* How one replication call ends, for the history variable repl_log: "skipped"
\* when the connector is down (line 441), "error" when the remote store fails
\* the statement, "rejected" when the driver refuses the call although the
\* remote store is healthy (the accounts insert: its parameters do not fill
\* the placeholders), "ok" when the statement ran.
ReplOutcome(op, ok) ==
    IF ~using_mysql THEN "skipped"
    ELSE IF ~ok THEN "error"
    ELSE IF op.kind = "accounts_insert" THEN "rejected"
    ELSE "ok"

\* A replication thread that undoes the local write when the remote call fails.
sync_to_mysql_Undo(op, ok) ==
    /\ op \in repl
    /\ repl' = repl \ {op}
    /\ remote' = IF using_mysql /\ ok THEN RemoteAfter(op) ELSE remote
    /\ repl_log' = ReplOutcome(op, ok)
    /\ accounts' = IF using_mysql /\ ~ok THEN {} ELSE accounts
    /\ UNCHANGED <<connVars, timeVars, next_id, checkin_history, next_hid,
                   notification_settings, next_sid, schedVars, requests, last_read,
                   dispatches, exec_calls, notified, seen, stamped, last_done,
                   ever_connected, delays>>

\* The replication thread of one write: sync_to_mysql returns at once when the
\* connector is down (line 441), else the statement runs on the remote store.
\* ok: the remote statement ran, or raised an error that is only logged (line 488).
sync_to_mysql(op, ok) ==
    /\ op \in repl
    /\ repl' = repl \ {op}
    /\ remote' = IF using_mysql /\ ok THEN RemoteAfter(op) ELSE remote
    /\ repl_log' = ReplOutcome(op, ok)
    /\ UNCHANGED <<connVars, timeVars, localVars, schedVars, requests, last_read,
                   dispatches, exec_calls, notified, seen, stamped, last_done,
                   ever_connected, delays>>

\* A lost connection that leaves the attempt counter as it is.
sync_to_mysql_lost_NoReset(op) ==
    /\ op \in repl
    /\ using_mysql
    /\ LiveLoops + 1 <= MaxReconnectors
    /\ repl' = repl \ {op}
    /\ using_mysql' = FALSE
    /\ retry_count' = retry_count
    /\ reconnectors' = reconnectors + 1
    /\ repl_log' = "lost"
    /\ delays' = <<>>
    /\ UNCHANGED <<DB_TYPE, one_loop, attempts, openers, sync_tx, remote, timeVars, localVars, schedVars,
                   requests, last_read, dispatches, exec_calls, notified, seen, stamped,
                   last_done, ever_connected>>

\* The replication call fails with "Lost connection" / "MySQL server has gone
\* away" (lines 490-493): the connector is marked down and a reconnect loop started.
sync_to_mysql_lost(op) ==
    /\ op \in repl
    /\ using_mysql
    /\ LiveLoops + 1 <= MaxReconnectors
    /\ repl' = repl \ {op}
    /\ using_mysql' = FALSE
    /\ retry_count' = 1
    /\ reconnectors' = reconnectors + 1
    /\ repl_log' = "lost"
    /\ delays' = <<>>
    /\ UNCHANGED <<DB_TYPE, one_loop, attempts, openers, sync_tx, remote, timeVars, localVars, schedVars,
                   requests, last_read, dispatches, exec_calls, notified, seen, stamped,
                   last_done, ever_connected>>


\* ------------------------------------------------------------- scheduler

NONE == -1

FreeThread ==
    [kind |-> "free", pc |-> "done", account_id |-> NULL, task_key |-> <<NULL, NULL>>,
     attempt |-> 0, date |-> NULL, name |-> "?", retries |-> 0, success |-> FALSE,
     in_window |-> FALSE,
     result |-> FALSE, execs |-> 0, writes |-> 0, sent |-> 0, eligible |-> FALSE,
     guarded |-> FALSE, all_failed |-> TRUE, r0 |-> 0]

\* What the history variable last_done keeps of a call that returned.
NoCall ==
    [kind |-> "none", eligible |-> FALSE, guarded |-> FALSE, r0 |-> 0, execs |-> 0,
     writes |-> 0, sent |-> 0, result |-> FALSE, all_failed |-> TRUE, retry_times |-> 0,
     in_window |-> FALSE]

Summary(t, v, sent) ==
    [kind |-> t.kind, eligible |-> t.eligible, guarded |-> t.guarded, r0 |-> t.r0,
     execs |-> t.execs, writes |-> t.writes, sent |-> t.sent + sent, result |-> v,
     all_failed |-> t.all_failed, retry_times |-> t.attempt, in_window |-> t.in_window]

\* A thread as threading.Thread(...).start() leaves it (lines 1061-1065, 1535).
NewThread(kind, pc, id, key) ==
    [FreeThread EXCEPT !.kind = kind, !.pc = pc, !.account_id = id, !.task_key = key]

FreeSlots == {s \in Slots : threads[s].pc = "done"}

\* start_time <= now <= end_time (lines 1042-1045)
InWindow(a) == a.window[1] <= clock /\ clock <= a.window[2]

\* A read of the whole accounts table, with no WHERE clause, that succeeds.
SelectEnabledAccounts_Unfiltered == CursorFetch_Open(accounts)

\* db.fetchall('SELECT * FROM accounts WHERE enabled = 1') (line 1022)
SelectEnabledAccounts == fetchall({a \in accounts : a.enabled})

\* The task record of lines 1049-1053.
NewTask == [last_check |-> NONE, completed |-> FALSE, retry_count |-> 0]

\* Lines 1028-1059 for one fetched row: the account gets a thread at this tick.
Due(a) ==
    /\ a.last_checkin_date # today
    /\ InWindow(a)
    /\ LET task == IF <<a.id, today>> \in DOMAIN checkin_tasks
                   THEN checkin_tasks[<<a.id, today>>] ELSE NewTask
       IN  /\ ~task.completed
           /\ (task.last_check = NONE \/ clock - task.last_check >= a.check_interval)

\* The task map after the loop over the rows and the clean-up of lines 1070-1075.
TasksAfterTick(rows) ==
    LET fresh == {<<a.id, today>> : a \in {r \in rows : r.last_checkin_date # today /\ InWindow(r)}}
        kept == {k \in DOMAIN checkin_tasks \cup fresh : k[2] = today}
        due == {<<a.id, today>> : a \in {r \in rows : Due(r)}}
    IN  [k \in kept |->
            LET task == IF k \in DOMAIN checkin_tasks THEN checkin_tasks[k] ELSE NewTask
            IN  IF k \in due THEN [task EXCEPT !.last_check = clock] ELSE task]

\* What a tick finds in the accounts table, for the history variable seen:
\* "owed": enabled, inside the window, no history today; "disabled": a
\* disabled account that is otherwise due; "cleared": an account that is due
\* although its last_checkin_date has been today earlier in the day.
SeenNow ==
    {<<"owed", a.name>> : a \in {r \in accounts :
        r.enabled /\ InWindow(r) /\ HistoryOf(r.id, today) = {}}}
    \cup {<<"disabled", a.name>> : a \in {r \in accounts :
        ~r.enabled /\ InWindow(r) /\ r.last_checkin_date # today}}
    \cup {<<"cleared", a.name>> : a \in {r \in accounts :
        r.enabled /\ InWindow(r) /\ r.last_checkin_date # today /\ r.name \in stamped}}

Bump(f, k) == [f EXCEPT ![k] = IF @ < MaxExec THEN @ + 1 ELSE @]

\* A loop without the except clause of line 1077: a tick whose read raises
\* does not come back to time.sleep(30).
run_scheduler_Uncaught ==
    /\ awake
    /\ ~SelectEnabledAccounts.raised
    /\ awake' = FALSE
    /\ seen' = seen \cup SeenNow
    /\ LET res == SelectEnabledAccounts
           due == {a \in res.rows : Due(a)}
       IN  IF res.raised
           THEN UNCHANGED <<checkin_tasks, threads, dispatches>>
           ELSE /\ Cardinality(due) <= Cardinality(FreeSlots)
                /\ checkin_tasks' = TasksAfterTick(res.rows)
                /\ LET slot == CHOOSE f \in [due -> FreeSlots] :
                                   \A x, y \in due : x # y => f[x] # f[y]
                   IN  threads' = [s \in Slots |->
                          IF \E a \in due : slot[a] = s
                          THEN LET a == CHOOSE a \in due : slot[a] = s
                               IN  NewThread("sched", "delay", a.id, <<a.id, today>>)
                          ELSE threads[s]]
                /\ dispatches' = [k \in DOMAIN dispatches |->
                          IF \E a \in due : k = <<a.name, today>>
                          THEN dispatches[k] + 1 ELSE dispatches[k]]
    /\ UNCHANGED <<today, clock, localVars, connVars, remote, repl, requests, last_read,
                   exec_calls, notified, stamped, last_done, connGhost>>

\* A loop whose read of the accounts succeeds and whose body ends without the
\* clean-up of lines 1070-1075: the records of earlier dates stay in the map.
run_scheduler_NoCleanup ==
    /\ awake
    /\ awake' = FALSE
    /\ seen' = seen \cup SeenNow
    /\ LET rows == {a \in accounts : a.enabled}
           due == {a \in rows : Due(a)}
           fresh == {<<a.id, today>> :
                        a \in {r \in rows : r.last_checkin_date # today /\ InWindow(r)}}
           stamp == {<<a.id, today>> : a \in due}
       IN  /\ Cardinality(due) <= Cardinality(FreeSlots)
           /\ checkin_tasks' = [k \in DOMAIN checkin_tasks \cup fresh |->
                 LET task == IF k \in DOMAIN checkin_tasks THEN checkin_tasks[k] ELSE NewTask
                 IN  IF k \in stamp THEN [task EXCEPT !.last_check = clock] ELSE task]
           /\ LET slot == CHOOSE f \in [due -> FreeSlots] :
                              \A x, y \in due : x # y => f[x] # f[y]
              IN  threads' = [s \in Slots |->
                     IF \E a \in due : slot[a] = s
                     THEN LET a == CHOOSE a \in due : slot[a] = s
                          IN  NewThread("sched", "delay", a.id, <<a.id, today>>)
                     ELSE threads[s]]
           /\ dispatches' = [k \in DOMAIN dispatches |->
                     IF \E a \in due : k = <<a.name, today>>
                     THEN dispatches[k] + 1 ELSE dispatches[k]]
    /\ UNCHANGED <<today, clock, localVars, connVars, remote, repl, requests, last_read,
                   exec_calls, notified, stamped, last_done, connGhost>>

\* One pass of the body of _run_scheduler's loop, then time.sleep(30).
\* A failing fetchall is caught by the except of line 1077.
run_scheduler ==
    /\ awake
    /\ awake' = FALSE
    /\ seen' = seen \cup SeenNow
    /\ LET res == SelectEnabledAccounts
           due == {a \in res.rows : Due(a)}
       IN  IF res.raised
           THEN UNCHANGED <<checkin_tasks, threads, dispatches>>
           ELSE /\ Cardinality(due) <= Cardinality(FreeSlots)
                /\ checkin_tasks' = TasksAfterTick(res.rows)
                /\ LET slot == CHOOSE f \in [due -> FreeSlots] :
                                   \A x, y \in due : x # y => f[x] # f[y]
                   IN  threads' = [s \in Slots |->
                          IF \E a \in due : slot[a] = s
                          THEN LET a == CHOOSE a \in due : slot[a] = s
                               IN  NewThread("sched", "delay", a.id, <<a.id, today>>)
                          ELSE threads[s]]
                /\ dispatches' = [k \in DOMAIN dispatches |->
                          IF \E a \in due : k = <<a.name, today>>
                          THEN dispatches[k] + 1 ELSE dispatches[k]]
    /\ UNCHANGED <<today, clock, localVars, connVars, remote, repl, requests, last_read,
                   exec_calls, notified, stamped, last_done, connGhost>>

\* A manual trigger that would honour the account's window, as the scheduler does.
manual_checkin_Gated(id) ==
    /\ Request
    /\ \E a \in AccountById(id) : InWindow(a)
    /\ \E s \in FreeSlots :
          /\ \A u \in FreeSlots : s <= u
          /\ threads' = [threads EXCEPT ![s] = NewThread("manual", "account", id, <<NULL, NULL>>)]
    /\ UNCHANGED <<timeVars, localVars, connVars, remote, repl, checkin_tasks,
                   last_read, ghostVars>>

\* POST /api/checkin/manual/<id>: perform_checkin(account_id) on a thread of its own.
manual_checkin(id) ==
    /\ Request
    /\ \E s \in FreeSlots :
          /\ \A u \in FreeSlots : s <= u
          /\ threads' = [threads EXCEPT ![s] = NewThread("manual", "account", id, <<NULL, NULL>>)]
    /\ UNCHANGED <<timeVars, localVars, connVars, remote, repl, checkin_tasks,
                   last_read, ghostVars>>


\* ---------------------------------------------------- the check-in routine

\* NotificationService.send_notification (lines 579-625): the settings row is
\* read through fetchone inside the notifier's own try; a failure is logged.
\* TRUE when a message is handed to a channel.
send_notification ==
    LET st == fetchone({r \in notification_settings : r.id = 1})
    IN  ~st.raised /\ \E r \in st.rows : r.enabled

Count(b) == IF b THEN 1 ELSE 0

Notified(b) == IF b /\ notified < MaxExec THEN notified + 1 ELSE notified

\* return v: a manual thread ends, a scheduler thread goes on to lines 1091-1092.
Returned(s, t, v, sent) ==
    /\ threads' = [threads EXCEPT ![s] =
          IF t.kind = "sched"
          THEN [FreeThread EXCEPT !.kind = "sched", !.pc = "completed",
                                  !.task_key = t.task_key, !.result = v]
          ELSE FreeThread]
    /\ last_done' = Summary(t, v, sent)

\* No except clause: the exception ends the thread, the call never returns.
Except_Raising(s, t) ==
    /\ threads' = [threads EXCEPT ![s] = FreeThread]
    /\ UNCHANGED <<localVars, repl, exec_calls, stamped, notified, last_done>>

\* An except clause that reports the error without looking the account up.
Except_Reporting(s, t) ==
    /\ notified' = Notified(TRUE)
    /\ Returned(s, t, FALSE, 1)
    /\ UNCHANGED <<localVars, repl, exec_calls, stamped>>

\* The except clause of perform_checkin (lines 1153-1168): the error
\* notification needs the account's name, read through fetchone; return False.
Except(s, t) ==
    /\ LET acc == fetchone(AccountById(t.account_id))
           sent == ~acc.raised /\ acc.rows # {} /\ send_notification
       IN  /\ notified' = Notified(sent)
           /\ Returned(s, t, FALSE, Count(sent))
    /\ UNCHANGED <<localVars, repl, exec_calls, stamped>>

\* perform_checkin(account_id, retry_attempt), one step of thread s: a call of
\* the facade, of the executor or of the notifier. A retry re-enters the
\* routine at line 1101 with retry_attempt + 1 after time.sleep(5).
perform_checkin(s) ==
    LET t == threads[s]
        id == t.account_id
    IN  CASE t.pc = "account" ->
              LET acc == fetchone(AccountById(id))
                  \* what the call finds when it starts, for the history variable last_done
                  t1 == IF t.attempt = 0
                        THEN [t EXCEPT !.name = NameOf(id),
                                       !.eligible = (\E a \in AccountById(id) : a.enabled)
                                                    /\ HistoryOf(id, today) = {},
                                       !.guarded = HistoryOf(id, today) # {},
                                       !.in_window = \E a \in AccountById(id) : InWindow(a),
                                       !.r0 = IF AccountById(id) = {} THEN 0
                                              ELSE (CHOOSE a \in AccountById(id) : TRUE).retry_count]
                        ELSE t
              IN  IF acc.raised THEN Except(s, t1)
                  ELSE IF acc.rows = {} \/ \E a \in acc.rows : ~a.enabled
                  THEN /\ Returned(s, t1, FALSE, 0)
                       /\ UNCHANGED <<localVars, repl, exec_calls, notified, stamped>>
                  ELSE LET a == CHOOSE a \in acc.rows : TRUE
                       IN  /\ threads' = [threads EXCEPT ![s] =
                                  [t1 EXCEPT !.pc = "history", !.date = today,
                                             !.name = a.name, !.retries = a.retry_count]]
                           /\ UNCHANGED <<localVars, repl, exec_calls, notified, stamped,
                                          last_done>>
          [] t.pc = "history" ->
              LET existing == fetchone(HistoryOf(id, t.date))
              IN  IF existing.raised THEN Except(s, t)
                  ELSE /\ IF existing.rows # {} THEN Returned(s, t, TRUE, 0)
                          ELSE /\ threads' = [threads EXCEPT ![s] = [t EXCEPT !.pc = "executor"]]
                               /\ UNCHANGED last_done
                       /\ UNCHANGED <<localVars, repl, exec_calls, notified, stamped>>
          [] t.pc = "executor" ->
              \E success \in BOOLEAN :
                  /\ exec_calls' = Bump(exec_calls, <<t.name, today>>)
                  /\ threads' = [threads EXCEPT ![s] =
                        LET t1 == [t EXCEPT !.execs = IF @ < MaxExec THEN @ + 1 ELSE @,
                                            !.all_failed = @ /\ ~success,
                                            !.success = success]
                        IN  IF ~success /\ t.attempt < t.retries
                            THEN [t1 EXCEPT !.pc = "account", !.attempt = @ + 1]
                            ELSE [t1 EXCEPT !.pc = "insert"]]
                  /\ UNCHANGED <<localVars, repl, notified, stamped, last_done>>
          [] t.pc = "insert" ->
              /\ ~EngineBusy
              /\ next_hid <= MaxId
              /\ checkin_history' = checkin_history \cup
                    {[id |-> next_hid, account_id |-> id, success |-> t.success,
                      checkin_date |-> t.date, retry_times |-> t.attempt]}
              /\ next_hid' = next_hid + 1
              /\ execute({[kind |-> "history_insert", id |-> id, field |-> "", val |-> t.date]})
              /\ threads' = [threads EXCEPT ![s] =
                    [t EXCEPT !.pc = IF t.success THEN "update" ELSE "notify",
                              !.writes = @ + 1]]
              /\ UNCHANGED <<accounts, next_id, notification_settings, next_sid,
                             exec_calls, notified, stamped, last_done>>
          [] t.pc = "update" ->
              /\ ~EngineBusy
              /\ accounts' = UpdateRows(accounts, id, "last_checkin_date", t.date)
              /\ execute({[kind |-> "accounts_update", id |-> id,
                           field |-> "last_checkin_date", val |-> t.date]})
              /\ threads' = [threads EXCEPT ![s] = [t EXCEPT !.pc = "notify", !.writes = @ + 1]]
              /\ stamped' = stamped \cup Stamped(accounts', today)
              /\ UNCHANGED <<next_id, checkin_history, next_hid, notification_settings,
                             next_sid, exec_calls, notified, last_done>>
          [] OTHER ->  \* "notify": lines 1146-1151
              /\ notified' = Notified(send_notification)
              /\ Returned(s, t, t.success, Count(send_notification))
              /\ UNCHANGED <<localVars, repl, exec_calls, stamped>>

\* perform_checkin_with_delay around the routine: the jitter sleep of lines
\* 1086-1087 before it, the write of the task's completed flag after it.
perform_checkin_with_delay(s) ==
    LET t == threads[s]
    IN  /\ IF t.pc = "delay"
           THEN /\ threads' = [threads EXCEPT ![s] = [t EXCEPT !.pc = "account"]]
                /\ UNCHANGED checkin_tasks
           ELSE /\ threads' = [threads EXCEPT ![s] = FreeThread]
                /\ checkin_tasks' =
                      IF t.task_key \in DOMAIN checkin_tasks
                      THEN [checkin_tasks EXCEPT ![t.task_key].completed = t.result]
                      ELSE checkin_tasks
        /\ UNCHANGED <<localVars, repl, exec_calls, notified, stamped, last_done>>

\* One step of a check-in thread.
thread_step(s) ==
    /\ threads[s].pc # "done"
    /\ IF threads[s].pc \in {"delay", "completed"}
       THEN perform_checkin_with_delay(s)
       ELSE perform_checkin(s) /\ UNCHANGED checkin_tasks
    /\ UNCHANGED <<timeVars, connVars, remote, requests, last_read, dispatches, seen,
                   connGhost>>

\* ------------------------------------------------------------------ time

time_passes ==
    /\ clock < DayLen - 1
    /\ clock' = clock + 1
    /\ awake' = TRUE
    /\ UNCHANGED <<today, localVars, connVars, remote, repl, schedVars, requests, last_read, ghostVars>>

date_rolls_over ==
    /\ clock = DayLen - 1
    /\ today < MaxDay
    /\ today' = today + 1
    /\ clock' = 0
    /\ awake' = TRUE
    /\ seen' = {}
    /\ stamped' = Stamped(accounts, today + 1)
    /\ UNCHANGED <<localVars, connVars, remote, repl, schedVars, requests, last_read,
                   dispatches, exec_calls, notified, last_done, connGhost>>

\* ------------------------------------------------------- the specification

\* The remote accounts table: rows another deployment or an earlier run left.
RemoteRow(lcd) ==
    [id |-> 1, name |-> "a", enabled |-> TRUE, window |-> <<1, 2>>,
     check_interval |-> 2, retry_count |-> 1, last_checkin_date |-> lcd]

RemoteTables == {{}, {RemoteRow(1)}}

\* The state Database.__init__ and CheckinScheduler.__init__ leave: the first
\* connect_mysql() of line 126 has succeeded (and resynchronised) or failed.
Init ==
    /\ DB_TYPE \in DB_TYPES
    /\ today = 1 /\ clock = 0 /\ awake = TRUE
    /\ checkin_history = {} /\ next_hid = 1
    /\ checkin_tasks = <<>>
    /\ threads = [s \in Slots |-> FreeThread]
    /\ repl = {}
    /\ attempts = 0 /\ openers = 0 /\ sync_tx = NoTx /\ one_loop = "none"
    /\ repl_log = "none" /\ delays = <<>>
    /\ requests = 0
    /\ last_read = [raised |-> FALSE, rows |-> {}]
    /\ dispatches = [k \in Names \X Days |-> 0]
    /\ exec_calls = [k \in Names \X Days |-> 0]
    /\ notified = 0
    /\ seen = {}
    /\ last_done = NoCall
    /\ \E tbl \in RemoteTables, notify \in {TRUE} :
          /\ remote = [accounts |-> IF DB_TYPE = "mysql" THEN tbl ELSE {}, notify |-> notify]
          /\ \/ /\ using_mysql = FALSE
                /\ retry_count = IF DB_TYPE = "mysql" THEN 1 ELSE 0
                /\ reconnectors = IF DB_TYPE = "mysql" /\ 1 < max_retries THEN 1 ELSE 0
                /\ ever_connected = FALSE
                /\ accounts = {} /\ next_id = 1
                /\ notification_settings = {[id |-> 1, enabled |-> FALSE]} /\ next_sid = 2
             \/ /\ DB_TYPE = "mysql"
                /\ using_mysql = TRUE /\ retry_count = 0 /\ reconnectors = 0
                /\ ever_connected = TRUE
                /\ accounts = Renumber(remote.accounts, 1)
                /\ next_id = 1 + Cardinality(remote.accounts)
                /\ notification_settings = {[id |-> 2, enabled |-> notify]} /\ next_sid = 3
    /\ stamped = Stamped(accounts, today)

\* The requests of the administrative surface that go through the facade.
AdminNext ==
    \/ \E n \in Names, w \in Windows, i \in CheckIntervals, r \in RetryCounts :
          add_account(n, w, i, r)
    \/ \E id \in Ids, e \in BOOLEAN : update_account(id, "enabled", e)
    \/ \E id \in Ids, r \in RetryCounts : update_account(id, "retry_count", r)
    \/ \E id \in Ids : delete_account(id)
    \/ \E type \in {"today", "all"} : clear_checkin_history(type)
    \/ get_accounts
    \/ \E e \in BOOLEAN : update_notification_settings(e)

\* The replication threads started by execute().
ReplNext ==
    \/ \E op \in repl, ok \in BOOLEAN : sync_to_mysql(op, ok)
    \/ \E op \in repl : sync_to_mysql_lost(op)

\* The scheduler loop, the check-in threads and the wall clock.
CheckinNext ==
    \/ \E id \in Ids : manual_checkin(id)
    \/ run_scheduler
    \/ \E s \in Slots : thread_step(s)
    \/ time_passes
    \/ date_rolls_over

\* The _reconnect_mysql threads.
ConnectorNext ==
    \/ reconnect_exit
    \/ reconnect_attempt
    \/ reconnect_failed
    \/ reconnect_connected
    \/ init_mysql_tables_failed
    \/ sync_from_mysql_begin
    \/ sync_from_mysql
    \/ sync_from_mysql_failed

Next == AdminNext \/ ReplNext \/ CheckinNext \/ ConnectorNext

Spec == Init /\ [][Next]_vars

\* The scheduler loop never ends (while self.running, line 1017), a started
\* thread runs to its end, and the wall clock goes on.
Fairness ==
    /\ WF_vars(run_scheduler)
    /\ \A s \in Slots : WF_vars(thread_step(s))
    /\ WF_vars(time_passes)
    /\ WF_vars(date_rolls_over)

\* The facade with the scheduler and its threads, the connector staying as
\* Database.__init__ or a lost connection left it.
SchedNext == AdminNext \/ ReplNext \/ CheckinNext

SchedSpec == Init /\ [][SchedNext]_vars

FairSpec == SchedSpec /\ Fairness

\* The facade with the connector and its threads, within one scheduler period.
ConnNext == AdminNext \/ ReplNext \/ ConnectorNext

ConnSpec == Init /\ [][ConnNext]_vars

\* A started replication thread runs to its end.
FairConnSpec == ConnSpec /\ WF_vars(ReplNext)

\* ------------------------------------------ one reconnect loop, by name
\* The threads of _reconnect_mysql are counted, not named, in the actions
\* above. To follow one of them from its start to its end, one thread at its
\* loop test is taken out of the count and carried in one_loop; its steps are
\* the steps of the counted threads.

\* Any running loop can be the one that is followed.
one_loop_start ==
    /\ one_loop = "none"
    /\ reconnectors > 0
    /\ reconnectors' = reconnectors - 1
    /\ one_loop' = "test"
    /\ UNCHANGED <<DB_TYPE, using_mysql, retry_count, attempts, openers, sync_tx, timeVars,
                   localVars, remote, repl, schedVars, requests, last_read, ghostVars>>

\* The loop test fails and the thread ends (line 272).
one_loop_exit ==
    /\ one_loop = "test"
    /\ ~(retry_count < max_retries /\ ~using_mysql)
    /\ one_loop' = "left"
    /\ UNCHANGED <<DB_TYPE, using_mysql, retry_count, reconnectors, attempts, openers, sync_tx,
                   timeVars, localVars, remote, repl, schedVars, requests, last_read,
                   ghostVars>>

\* The loop test passes and the thread enters connect_mysql (lines 272-273, 215-218).
one_loop_attempt ==
    /\ one_loop = "test"
    /\ retry_count < max_retries /\ ~using_mysql
    /\ one_loop' = "attempt"
    /\ delays' = Append(delays, Delay(retry_count))
    /\ UNCHANGED <<DB_TYPE, using_mysql, retry_count, reconnectors, attempts, openers, sync_tx,
                   timeVars, localVars, remote, repl, schedVars, requests, last_read,
                   dispatches, exec_calls, notified, seen, stamped, last_done,
                   ever_connected, repl_log>>

\* Its connect attempt fails (lines 257-268): the counter goes up, below the
\* cap one more thread is started (line 263), and the thread is back at its
\* loop test.
one_loop_failed ==
    /\ one_loop = "attempt"
    /\ one_loop' = "test"
    /\ retry_count' = retry_count + 1
    /\ IF retry_count + 1 < max_retries
       THEN /\ LiveLoops + 1 <= MaxReconnectors
            /\ reconnectors' = reconnectors + 1
            /\ UNCHANGED using_mysql
       ELSE /\ UNCHANGED reconnectors
            /\ using_mysql' = FALSE
    /\ UNCHANGED <<DB_TYPE, attempts, openers, sync_tx, timeVars, localVars, remote, repl,
                   schedVars, requests, last_read, ghostVars>>

\* Its test query answers (lines 245-247): connect_mysql will return True and
\* the loop is left by the break of line 274. The table creation and the
\* resynchronisation that precede the break are those of the counted threads.
one_loop_connected ==
    /\ one_loop = "attempt"
    /\ one_loop' = "left"
    /\ openers' = openers + 1
    /\ using_mysql' = TRUE
    /\ retry_count' = 0
    /\ ever_connected' = TRUE
    /\ delays' = <<>>
    /\ UNCHANGED <<DB_TYPE, reconnectors, attempts, sync_tx, timeVars, localVars, remote, repl,
                   schedVars, requests, last_read, dispatches, exec_calls, notified, seen,
                   stamped, last_done, repl_log>>

\* PUT /api/accounts/<id>, served any number of times: the handler of
\* update_account outside the count of requests.
update_account_again(id, field, val) ==
    /\ ~EngineBusy
    /\ accounts' = UpdateRows(accounts, id, field, val)
    /\ execute({[kind |-> "accounts_update", id |-> id, field |-> field, val |-> val]})
    /\ UNCHANGED <<timeVars, next_id, checkin_history, next_hid, notification_settings,
                   next_sid, connVars, remote, schedVars, requests, last_read, ghostVars>>

OneLoopNext ==
    \/ one_loop_start
    \/ one_loop_exit
    \/ one_loop_attempt
    \/ one_loop_failed
    \/ one_loop_connected

\* The connector with its replication threads, one loop followed by name, and
\* writes that never run out.
LoopNext ==
    \/ ConnectorNext
    \/ ReplNext
    \/ OneLoopNext
    \/ \E id \in Ids, val \in BOOLEAN : update_account_again(id, "enabled", val)

\* Every _reconnect_mysql thread runs on: it takes its loop test (one branch
\* or the other), in connect_mysql it gets an answer from the remote store (either one), and ends
\* its resynchronisation (either way); replication threads run to their end.
ConnFairness ==
    /\ WF_vars(reconnect_exit \/ reconnect_attempt)
    /\ WF_vars(reconnect_failed \/ reconnect_connected)
    /\ WF_vars(init_mysql_tables_failed \/ sync_from_mysql_begin \/ sync_from_mysql_failed)
    /\ WF_vars(sync_from_mysql \/ sync_from_mysql_failed)
    /\ WF_vars(ReplNext)

\* The followed thread runs on in the same way.
OneLoopFairness ==
    /\ WF_vars(one_loop_exit \/ one_loop_attempt)
    /\ WF_vars(one_loop_failed \/ one_loop_connected)

FairLoopSpec == Init /\ [][LoopNext]_vars /\ ConnFairness /\ OneLoopFairness

\* A start over a database file the deployment already holds: init_local_cache
\* creates the tables only IF NOT EXISTS (lines 136-190), so the rows of the
\* file at local_db_path are there when the scheduler starts. The file holds
\* account "a" and one history row of today for it.
StoredInit ==
    /\ DB_TYPE \in DB_TYPES
    /\ today = 1 /\ clock = 0 /\ awake = TRUE
    /\ \E r \in RetryCounts, ok \in BOOLEAN :
          /\ accounts = {[NewAccount(1, "a", <<1, 2>>, 2, r)
                              EXCEPT !.last_checkin_date = IF ok THEN 1 ELSE NULL]}
          /\ checkin_history = {[id |-> 1, account_id |-> 1, success |-> ok,
                                 checkin_date |-> 1, retry_times |-> 0]}
    /\ next_id = 2 /\ next_hid = 2
    /\ notification_settings = {[id |-> 1, enabled |-> FALSE]} /\ next_sid = 2
    /\ checkin_tasks = <<>>
    /\ threads = [s \in Slots |-> FreeThread]
    /\ using_mysql = FALSE
    /\ ever_connected = FALSE
    /\ retry_count = IF DB_TYPE = "mysql" THEN 1 ELSE 0
    /\ reconnectors = IF DB_TYPE = "mysql" /\ 1 < max_retries THEN 1 ELSE 0
    /\ \E tbl \in RemoteTables :
          remote = [accounts |-> IF DB_TYPE = "mysql" THEN tbl ELSE {}, notify |-> TRUE]
    /\ repl = {}
    /\ attempts = 0 /\ openers = 0 /\ sync_tx = NoTx /\ one_loop = "none"
    /\ repl_log = "none" /\ delays = <<>>
    /\ requests = 0
    /\ last_read = [raised |-> FALSE, rows |-> {}]
    /\ dispatches = [k \in Names \X Days |-> 0]
    /\ exec_calls = [k \in Names \X Days |-> 0]
    /\ notified = 0
    /\ seen = {}
    /\ stamped = Stamped(accounts, today)
    /\ last_done = NoCall

\* The stored file is served without a remote connection.
LocalNext == AdminNext \/ CheckinNext

StoredSpec == StoredInit /\ [][LocalNext]_vars

\* The stored file with a remote store configured: the connector and its threads.
StoredConnSpec == StoredInit /\ [][ConnNext]_vars

\* ------------------------------------------------------------- properties

\* A step of the scheduler loop's body: only run_scheduler puts the loop to sleep.
Tick == awake /\ ~awake'

C2_RetriesThenOneFailureRecord ==
    (last_done.kind # "none" /\ last_done.eligible /\ last_done.all_failed)
        => /\ last_done.execs = last_done.r0 + 1
           /\ last_done.writes = 1
           /\ last_done.retry_times = last_done.r0
           /\ ~last_done.result

C4_DisabledNeverDispatched ==
    [][Tick =>
          \A a \in accounts : ~a.enabled =>
              /\ dispatches'[<<a.name, today>>] = dispatches[<<a.name, today>>]
              /\ \A s \in Slots : threads'[s] # threads[s] => threads'[s].account_id # a.id]_vars

\* A tick ran over a disabled account that is inside its window with no check-in today.
C4_Witness == \E n \in Names : <<"disabled", n>> \in seen

\* C5: an enabled account with no history of the day that a tick of the day
\* found inside its window has the executor invoked for it on that day.
C5_EventuallyInvoked ==
    \A n \in Names, d \in Days :
        (today = d /\ <<"owed", n>> \in seen) ~> (exec_calls[<<n, d>>] > 0)

\* C6: a tick that finds an enabled account inside its window, not checked in
\* today and with no task record of today, dispatches one attempt for it and
\* stamps last_check = now; a tick less than check_interval after the stamped
\* last_check dispatches none.
C6_OneDispatchPerInterval ==
    [][Tick =>
          \A a \in accounts :
              LET key == <<a.id, today>>
                  fresh == /\ a.enabled /\ a.last_checkin_date # today /\ InWindow(a)
                           /\ key \notin DOMAIN checkin_tasks
                  early == /\ key \in DOMAIN checkin_tasks
                           /\ checkin_tasks[key].last_check # NONE
                           /\ clock - checkin_tasks[key].last_check < a.check_interval
              IN  /\ fresh => /\ dispatches'[<<a.name, today>>] = dispatches[<<a.name, today>>] + 1
                              /\ key \in DOMAIN checkin_tasks'
                              /\ checkin_tasks'[key].last_check = clock
                  /\ early => dispatches'[<<a.name, today>>] = dispatches[<<a.name, today>>]]_vars

\* C7: a call of perform_checkin that starts when a history record of today
\* exists for the account invokes no executor, writes nothing, sends no
\* notification and returns true.
C7_ExistingHistoryIsNoOp ==
    (last_done.kind # "none" /\ last_done.guarded)
        => /\ last_done.execs = 0
           /\ last_done.writes = 0
           /\ last_done.sent = 0
           /\ last_done.result

C9_ManualBypassesGatingOnly ==
    /\ (requests < MaxRequests /\ FreeSlots # {}) =>
          \A id \in Ids : ENABLED manual_checkin(id)
    /\ \A s \in Slots :
          (threads[s].kind = "manual" /\ threads[s].execs = 0) => threads[s].attempt = 0
    /\ (last_done.kind = "manual" /\ last_done.guarded) =>
          (last_done.execs = 0 /\ last_done.writes = 0)

\* A manual call for an account outside its window, holding a history record
\* of today, has returned.
C9_Witness == last_done.kind = "manual" /\ last_done.guarded /\ ~last_done.in_window

\* C10: a read through fetchall that starts after the writes completed returns
\* the rows the local table holds, in every state of the connector.
C10_WritesVisibleToReads ==
    [][last_read' # last_read =>
          (~last_read'.raised /\ last_read'.rows = accounts')]_vars

\* A step of a replication thread: one pending replication call is consumed.
ReplStep == repl' # repl /\ repl' \subseteq repl

\* A request of the administrative surface is answered.
HandlerStep == requests' # requests

\* C11: execute() returns without waiting for the replication of its write (the
\* remote store is untouched when the handler answers), and a replication call,
\* failing or not, changes neither what the caller got nor the local store.
C11_ReplicationIsDeferred ==
    [][/\ HandlerStep => remote' = remote
       /\ ReplStep => UNCHANGED <<localVars, last_read, requests>>]_vars

\* A replication call has failed after a local write that is still in place.
C11_Witness == repl_log \in {"error", "lost"} /\ requests > 0 /\ accounts # {}

\* The rows of an accounts table compared on every column except the id.
Unkeyed(rows) == {[f \in (DOMAIN r) \ {"id"} |-> r[f]] : r \in rows}

\* C12: once the connector has gone from disconnected to connected and the
\* connecting thread has left its resynchronisation, the local accounts equal
\* the remote accounts on every column except the id (no request was served, so
\* neither table was written since the remote rows were read).
C12_ConnectedMeansSynced ==
    (using_mysql /\ requests = 0 /\ openers = 0 /\ ~sync_tx.open) =>
        Unkeyed(accounts) = Unkeyed(remote.accounts)

\* C13: with a remote store configured and every connect attempt failing, once
\* max_retries attempts have failed using_mysql is false, and the reads of the
\* local store have succeeded throughout.
C13_LocalServesWhenRemoteIsDown ==
    (DB_TYPE = "mysql" /\ ~ever_connected /\ retry_count >= max_retries) =>
        (~using_mysql /\ ~last_read.raised)

\* C14: the k-th reconnect attempt made since the connection failed or was lost
\* sleeps min(3 * 2^(k-1), 300) seconds first.
C14_ExponentialBackoff ==
    \A k \in 1..Len(delays) : delays[k] = Min(3 * (2 ^ (k - 1)), 300)

\* C15: with no MYSQL_DSN configured using_mysql is false in every state, no
\* connect attempt is made (the attempt counter stays 0, no delay is slept), no
\* _reconnect_mysql thread exists and no write is handed to replication.
C15_LocalOnlyWithoutDsn ==
    DB_TYPE = "sqlite" =>
        /\ ~using_mysql /\ ~ever_connected
        /\ retry_count = 0 /\ delays = <<>>
        /\ LiveLoops = 0
        /\ repl = {} /\ repl_log = "none"

\* Without a DSN two writes have been applied to the local store.
C15_Witness == DB_TYPE = "sqlite" /\ requests = MaxRequests /\ accounts # {}

\* C16: at most one _reconnect_mysql thread is alive at any time.
C16_OneReconnectLoop == LiveLoops <= 1

\* C17: once retry_count has reached max_retries with the connector down, the
\* connector never becomes connected again.
C17_NoConnectAfterCap ==
    [][(retry_count >= max_retries /\ ~using_mysql) => ~using_mysql']_vars

\* A replication call that ended in the "Lost connection" branch (lines 490-493).
LostStep == ReplStep /\ repl_log' = "lost" /\ using_mysql

\* C18: a replication call that fails with a transport error while the
\* connector is connected leaves using_mysql false and the attempt counter at 1,
\* starts one reconnect loop, and raises nothing to the caller of execute():
\* the local store, the answered requests and what they read are as before.
C18_LostConnectionStartsReconnect ==
    [][LostStep =>
          /\ ~using_mysql' /\ retry_count' = 1
          /\ LiveLoops' = LiveLoops + 1 /\ reconnectors' = reconnectors + 1
          /\ UNCHANGED <<localVars, requests, last_read>>]_vars

\* A replication call has lost the connection: the connector is down, the
\* counter is 1 and a reconnect loop stands at its loop test.
C18_Witness == repl_log = "lost" /\ ~using_mysql /\ retry_count = 1 /\ reconnectors > 0

\* A handler runs a mutating statement through execute().
WriteCall ==
    \/ \E n \in Names, w \in Windows, i \in CheckIntervals, r \in RetryCounts :
          add_account(n, w, i, r)
    \/ \E id \in Ids, e \in BOOLEAN : update_account(id, "enabled", e)
    \/ \E id \in Ids : delete_account(id)
    \/ \E type \in {"today", "all"} : clear_checkin_history(type)

\* C19: the statements that mutate the local store exclude one another: no
\* execute() call runs its statement while the transaction of the
\* resynchronisation is open.
C19_LocalWritesExclusive == [][WriteCall => ~sync_tx.open]_vars

\* C20: the local notification_settings table holds exactly one row, and that
\* row has id = 1.
C20_OneSettingsRowWithIdOne ==
    /\ Cardinality(notification_settings) = 1
    /\ \A r \in notification_settings : r.id = 1

\* C21: an account insert made while the connector is connected is followed,
\* unless the remote store fails the call or the connection is lost, by a state
\* in which the remote accounts table holds an account of that name.
C21_InsertReachesRemote ==
    \A n \in Names :
        (using_mysql /\ \E op \in repl : op.kind = "accounts_insert" /\ op.field = n)
            ~> (\/ \E a \in remote.accounts : a.name = n
                \/ repl_log \in {"error", "lost", "skipped"})

\* C22: the resynchronisation replaces the local accounts and settings in one
\* step. While its transaction is open the local tables are as they were
\* before it started; when it ends they are either still so (it failed) or
\* hold exactly the remote rows it read and the remote settings (it committed).
C22_ResyncIsAtomic ==
    [][/\ (~sync_tx.open /\ sync_tx'.open) => UNCHANGED localVars
       /\ (sync_tx.open /\ ~sync_tx'.open) =>
             \/ UNCHANGED localVars
             \/ /\ Unkeyed(accounts') = Unkeyed(sync_tx.accounts)
                /\ Cardinality(accounts') = Cardinality(sync_tx.accounts)
                /\ \A r \in notification_settings' : r.enabled = remote.notify
                /\ Cardinality(notification_settings') = 1]_vars

\* The transaction of a resynchronisation is open over a local table that
\* holds rows other than the remote ones it is about to insert.
C22_Witness ==
    sync_tx.open /\ accounts # {} /\ Unkeyed(accounts) # Unkeyed(sync_tx.accounts)

\* A step of sync_from_mysql: its transaction opens, commits or is rolled back.
ResyncStep == sync_tx' # sync_tx

\* C23: no step of the resynchronisation adds, removes or modifies a row of the
\* local checkin_history table.
C23_ResyncKeepsHistory ==
    [][ResyncStep => UNCHANGED <<checkin_history, next_hid>>]_vars

\* A resynchronisation has replaced the account a stored history row belongs to.
C23_Witness ==
    /\ checkin_history # {}
    /\ ever_connected /\ ~sync_tx.open /\ using_mysql
    /\ \A h \in checkin_history : AccountById(h.account_id) = {}

\* Thread s calls the executor (lines 1116-1124).
ExecutorCall(s) == threads[s].pc = "executor" /\ threads'[s] # threads[s]

C25_ChainEndWritesOneRecord ==
    (last_done.kind # "none" /\ last_done.eligible) =>
        last_done.writes = (IF last_done.result THEN 2 ELSE 1)

\* The account is missing or disabled.
Inactive(id) == \A a \in AccountById(id) : ~a.enabled

\* Thread s is at the start of perform_checkin, where the account is fetched again.
Refetch(s) == threads[s].pc = "account" /\ threads'[s] # threads[s]

\* C26: a call (or retry) of perform_checkin that starts when the account is
\* missing or disabled ends there: no executor call, no write to the local
\* store, no notification.
C26_InactiveAccountIsNoOp ==
    [][\A s \in Slots :
          (Refetch(s) /\ Inactive(threads[s].account_id)) =>
              /\ threads'[s].pc \in {"done", "completed"}
              /\ UNCHANGED <<localVars, exec_calls, notified>>]_vars

\* A call of perform_checkin for a missing or disabled account has returned.
C26_Witness ==
    last_done.kind # "none" /\ ~last_done.eligible /\ ~last_done.guarded /\ ~last_done.result

\* The statement thread s is about to run inside perform_checkin raises.
Raises(s) ==
    LET t == threads[s]
    IN  \/ t.pc = "account" /\ fetchone(AccountById(t.account_id)).raised
        \/ t.pc = "history" /\ fetchone(HistoryOf(t.account_id, t.date)).raised

\* perform_checkin_with_delay writes the returned value into the task record.
Completes(s) == threads[s].pc = "completed" /\ threads'[s] # threads[s]

\* C27: an exception raised inside perform_checkin is caught there: the call
\* returns false to its thread, the scheduler loop and the task map are not
\* touched by it, and the task of a call that returned false is not completed.
C27_ErrorsStayInsideRoutine ==
    [][\A s \in Slots :
          /\ (Raises(s) /\ threads'[s] # threads[s]) =>
                /\ last_done'.kind = threads[s].kind /\ ~last_done'.result
                /\ threads'[s].pc = (IF threads[s].kind = "sched" THEN "completed" ELSE "done")
                /\ ~threads'[s].result
                /\ UNCHANGED <<awake, checkin_tasks>>
          /\ (Completes(s) /\ ~threads[s].result) =>
                \A k \in DOMAIN checkin_tasks' :
                    k = threads[s].task_key => ~checkin_tasks'[k].completed]_vars

\* A manual call for an enabled account with no history of today has raised at
\* its first statement and returned false.
C27_Witness ==
    /\ last_done.kind = "manual" /\ last_done.eligible
    /\ last_done.execs = 0 /\ ~last_done.result

\* C28: the scheduler loop keeps ticking: every time the loop wakes up a tick
\* follows, whatever error the tick before it ended with.
C28_LoopKeepsTicking == awake ~> ~awake

\* A tick whose read of the accounts raised has run in a period after the first
\* one, and the loop is asleep until the next period.
C28_Witness == ~awake /\ clock > 0 /\ SelectEnabledAccounts.raised /\ accounts # {}

\* C30: a reconnect loop that is running eventually leaves its loop.
C30_LoopsTerminate == (one_loop \in {"test", "attempt"}) ~> (one_loop = "left")

InFlight(s) == threads[s].pc # "done"

\* C33: no two check-in threads are in flight for the same account at the same time.
C33_OneChainPerAccount ==
    \A s1, s2 \in Slots :
        (s1 # s2 /\ InFlight(s1) /\ InFlight(s2) /\ AccountById(threads[s1].account_id) # {})
            => threads[s1].account_id # threads[s2].account_id

\* A replication call whose statement ran on the remote store.
Applied(op) == ReplStep /\ op \in repl /\ op \notin repl' /\ repl_log' = "ok"

\* C35: a replicated update that ran on the remote store has changed the
\* remote row of the account the local statement changed: the account that
\* has the statement's id in the local table has, under its name, the written
\* value in the remote table too.
C35_ReplicationHitsSameAccount ==
    [][\A op \in repl :
          (Applied(op) /\ op.kind = "accounts_update") =>
              \A a \in AccountById(op.id) :
                  (a[op.field] = op.val /\ \E r \in remote.accounts : r.name = a.name)
                      => \E r \in remote.accounts' : r.name = a.name /\ r[op.field] = op.val]_vars

\* C36: every row of the local checkin_history belongs to an account of the
\* local accounts table.
C36_HistoryHasItsAccount ==
    \A h \in checkin_history : AccountById(h.account_id) # {}

\* C37: the two statements one handler runs through execute() reach the remote
\* store in the order of the handler: the second (the delete of the account,
\* the reset of last_checkin_date) is not applied while the first (the delete
\* of the history rows) is still waiting. Only one request has been served, so
\* the waiting calls are those of one caller.
C37_ReplicationKeepsOrder ==
    [][\A op \in repl :
          (Applied(op) /\ requests = 1) =>
              /\ op.kind = "accounts_delete" =>
                    ~\E o \in repl' : o.kind = "history_delete" /\ o.id = op.id
              /\ op.kind = "accounts_clear" =>
                    ~\E o \in repl' : o.kind = "history_clear" /\ o.field = op.field]_vars

\* C38: the attempt counter never exceeds max_retries, and no more than
\* max_retries connect attempts are made between two resets of the counter.
C38_AttemptsBounded ==
    /\ retry_count <= max_retries
    /\ Len(delays) <= max_retries

\* A call of connect_mysql ends on its failure path (lines 257-268): the
\* counter goes up by one, in a step that is not a replication call.
FailureReturn == retry_count' = retry_count + 1 /\ repl' = repl

\* C39: when a call of connect_mysql ends on its failure path the connector is
\* disconnected, and the connector is never connected with a non-zero counter.
C39_FailureMeansDisconnected ==
    [][/\ FailureReturn => ~using_mysql'
       /\ using_mysql' => retry_count' = 0]_vars

\* C40: an account whose last_checkin_date is today has a history row of today
\* with success = true in the local store.
C40_StampHasItsRecord ==
    \A a \in accounts :
        a.last_checkin_date = today => \E h \in HistoryOf(a.id, today) : h.success

====
